---- MODULE Spec2Model ----
(***************************************************************************)
(* Model of rl-session's main loop (src/src/main.rs): the watcher thread   *)
(* feeds an mpsc channel; the loop debounces Create/Modify pairs with      *)
(* current_file, parses the written replay, folds its PlayerStats into the *)
(* running tally, renders the report and publishes it.                     *)
(***************************************************************************)
EXTENDS Integers, Sequences, FiniteSets, TLC

VARIABLES
    rx,            \* events sent by the watcher and not yet received (mpsc channel)
    current_file,  \* Option<PathBuf>: the file seen Created and not yet Modified
    tally,         \* Tally { player_stats, games_played }
    no_discord,    \* args.no_discord
    pc,            \* "recv": at `for e in rx`; "send": awaiting client.send
    ready,         \* the "Replay written" signals of the last loop iteration
    report,        \* stat_message built by the last loop iteration, or None
    rerun,         \* stat_message as a map iterating in another order builds it
    file,          \* what parse_rl returned in the last loop iteration, or None
    res,           \* what client.send returned in the last loop iteration, or None
    reports,       \* history: the stat_messages built so far
    sends,         \* history: the client.send calls made for a stat_message so far
    appearances,   \* history: per name, the merged matches with a stat line of that name
    handled        \* history: the last events the loop has taken from rx (newest last)

vars == <<rx, current_file, tally, no_discord, pc, ready, report, rerun, file,
          res, reports, sends, appearances, handled>>

\* ---------------------------------------------------------------- bounds

\* Matches merged in a run of Spec.
MaxGames == 2
\* Matches merged in a run of SpecTally.
MaxGamesTally == 2
\* Matches merged in a run of SpecLong.
MaxGamesLong == 10
\* Events the channel buffers.
MaxQueue == 1

\* ------------------------------------------------------------- Option<T>

None == [some |-> FALSE]
Some(v) == [some |-> TRUE, val |-> v]

\* ------------------------------------------------------- usize, `as usize`

\* A usize is 64 bits wide: four 16-bit limbs, most significant first.
Limb == 65536

UsizeOf(n) == <<0, 0, n \div Limb, n % Limb>>

\* `*v as usize` of an i32: sign extension to 64 bits.
AsUsize(v) ==
    IF v >= 0
    THEN UsizeOf(v)
    ELSE LET w == -(v + 1)
         IN  <<Limb - 1, Limb - 1, (Limb - 1) - (w \div Limb), (Limb - 1) - (w % Limb)>>

\* a + b on usize, wrapping at 2^64 (release build).
UAdd(a, b) ==
    LET s4 == a[4] + b[4]
        s3 == a[3] + b[3] + (s4 \div Limb)
        s2 == a[2] + b[2] + (s3 \div Limb)
        s1 == a[1] + b[1] + (s2 \div Limb)
    IN  <<s1 % Limb, s2 % Limb, s3 % Limb, s4 % Limb>>

\* a < b on sequences of naturals of the same length, most significant first.
RECURSIVE LexLess(_, _)
LexLess(a, b) ==
    IF a = <<>> THEN FALSE
    ELSE IF Head(a) # Head(b) THEN Head(a) < Head(b)
    ELSE LexLess(Tail(a), Tail(b))

\* Ord for usize.
ULess(a, b) == LexLess(a, b)

\* Ord for (usize, usize): lexicographic.
PairLess(x, y) == LexLess(x[1] \o x[2], y[1] \o y[2])

\* ------------------------------------------------------------ paths, events

\* A file name is the sequence of its dot-separated parts: a.replay is <<"a", "replay">>.
\* Path::extension: the part after the last dot; None without a dot, or when the
\* only dot leads the name.
Extension(p) ==
    IF Len(p) < 2 \/ (Len(p) = 2 /\ p[1] = "")
    THEN None
    ELSE Some(p[Len(p)])

Created(p) == [ok |-> TRUE, kind |-> "Create", paths |-> <<p>>]
Modified(p) == [ok |-> TRUE, kind |-> "Modify", paths |-> <<p>>]
Other(p) == [ok |-> TRUE, kind |-> "Remove", paths |-> <<p>>]
NoPath(k) == [ok |-> TRUE, kind |-> k, paths |-> <<>>]
WatchError == [ok |-> FALSE, kind |-> "Error", paths |-> <<>>]

\* paths.get(0)
FirstPath(e) == IF Len(e.paths) >= 1 THEN Some(e.paths[1]) ELSE None

\* ---------------------------------------------------- HeaderProp, replays

\* A HeaderProp: i, s and a hold the value of an Int, a Str and an Array.
Absent == [t |-> "Absent", i |-> 0, s |-> "", a |-> <<>>]
Int32(v) == [t |-> "Int", i |-> v, s |-> "", a |-> <<>>]
Str(v) == [t |-> "Str", i |-> 0, s |-> v, a |-> <<>>]
Array(v) == [t |-> "Array", i |-> 0, s |-> "", a |-> v]

\* One element of the PlayerStats array.
Line(name, team, m) ==
    [Name |-> name, Team |-> team, Score |-> m[1], Goals |-> m[2],
     Assists |-> m[3], Saves |-> m[4], Shots |-> m[5]]

\* What parse_rl returns for a file: Err, or the header properties the loop reads.
ParseErr == [ok |-> FALSE, PlayerStats |-> Absent, Team0Score |-> Absent, Team1Score |-> Absent]
Replay(stats, t0, t1) ==
    [ok |-> TRUE, PlayerStats |-> stats, Team0Score |-> t0, Team1Score |-> t1]

\* HeaderProp::as_i32().unwrap_or_default(), and 0 for a property not found.
ScoreOf(prop) == IF prop.t = "Int" THEN prop.i ELSE 0

\* ("Score", HeaderProp::Int(v)) => score = *v as usize; otherwise the initial 0.
IntField(prop) == IF prop.t = "Int" THEN AsUsize(prop.i) ELSE UsizeOf(0)

\* ("Name", HeaderProp::Str(v)) => name = Some(v.to_string())
NameField(prop) == IF prop.t = "Str" THEN Some(prop.s) ELSE None

\* ------------------------------------------------------------------ merge

\* let team_win_lose = if team0_score == team1_score { (2, 2) } ...
TeamWinLose(team0_score, team1_score) ==
    IF team0_score = team1_score THEN <<2, 2>>
    ELSE IF team0_score > team1_score THEN <<0, 1>>
    ELSE <<1, 0>>

\* let did_win = team == team_win_lose.0 as usize;
DidWin(team, team_win_lose) == team = UsizeOf(team_win_lose[1])

\* let did_lose = team == team_win_lose.1;
DidLose(team, team_win_lose) == team = UsizeOf(team_win_lose[2])

\* `b as usize` of a bool.
BoolAsUsize(b) == IF b THEN 1 ELSE 0

\* .and_modify(|stats| { ... })
AndModify(stats, l, did_win, did_lose) ==
    [times_seen |-> stats.times_seen + 1,
     wins       |-> stats.wins + BoolAsUsize(did_win),
     losses     |-> stats.losses + BoolAsUsize(did_lose),
     score      |-> <<UAdd(stats.score[1], l.score), l.score>>,
     goals      |-> <<UAdd(stats.goals[1], l.goals), l.goals>>,
     assists    |-> <<UAdd(stats.assists[1], l.assists), l.assists>>,
     saves      |-> <<UAdd(stats.saves[1], l.saves), l.saves>>,
     shots      |-> <<UAdd(stats.shots[1], l.shots), l.shots>>]

\* .or_insert(PlayerStats { times_seen: 1, ... })
OrInsert(l, did_win, did_lose) ==
    [times_seen |-> 1,
     wins       |-> BoolAsUsize(did_win),
     losses     |-> BoolAsUsize(did_lose),
     score      |-> <<l.score, l.score>>,
     goals      |-> <<l.goals, l.goals>>,
     assists    |-> <<l.assists, l.assists>>,
     saves      |-> <<l.saves, l.saves>>,
     shots      |-> <<l.shots, l.shots>>]

\* The (key, prop) loop over one player_stat: the values the body works with.
Extract(player_stat) ==
    [name    |-> NameField(player_stat.Name),
     score   |-> IntField(player_stat.Score),
     goals   |-> IntField(player_stat.Goals),
     assists |-> IntField(player_stat.Assists),
     saves   |-> IntField(player_stat.Saves),
     shots   |-> IntField(player_stat.Shots),
     team    |-> IntField(player_stat.Team)]

\* The body of `for player_stat in stats` for one element.
Accumulate(player_stats, player_stat, team_win_lose) ==
    LET l        == Extract(player_stat)
        did_win  == DidWin(l.team, team_win_lose)
        did_lose == DidLose(l.team, team_win_lose)
    IN  IF ~l.name.some THEN player_stats
        ELSE LET name == l.name.val
             IN  IF name \in DOMAIN player_stats
                 THEN [player_stats EXCEPT
                         ![name] = AndModify(player_stats[name], l, did_win, did_lose)]
                 ELSE [n \in DOMAIN player_stats \cup {name} |->
                         IF n = name THEN OrInsert(l, did_win, did_lose)
                         ELSE player_stats[n]]

\* for player_stat in stats { ... }, in the order of the array.
RECURSIVE AccumulateAll(_, _, _)
AccumulateAll(player_stats, stats, team_win_lose) ==
    IF stats = <<>> THEN player_stats
    ELSE AccumulateAll(Accumulate(player_stats, Head(stats), team_win_lose),
                       Tail(stats), team_win_lose)

\* A merge that folds the lines in and leaves games_played as it was.
MergeKeepsCount(t, replay) ==
    LET team_win_lose == TeamWinLose(ScoreOf(replay.Team0Score), ScoreOf(replay.Team1Score))
    IN  [player_stats |-> AccumulateAll(t.player_stats, replay.PlayerStats.a, team_win_lose),
         games_played |-> t.games_played]

\* The tally after a replay's statistics are folded in.
Merge(t, replay) ==
    LET team_win_lose == TeamWinLose(ScoreOf(replay.Team0Score), ScoreOf(replay.Team1Score))
    IN  [player_stats |-> AccumulateAll(t.player_stats, replay.PlayerStats.a, team_win_lose),
         games_played |-> t.games_played + 1]

\* ----------------------------------------------------------------- report

\* IsLess with a and b swapped: a.1.score.cmp(&b.1.score).
IsLessAscending(player_stats, a, b) == PairLess(player_stats[a].score, player_stats[b].score)

\* The comparator of sort_unstable_by: |a, b| b.1.score.cmp(&a.1.score) is Less.
IsLess(player_stats, a, b) == PairLess(player_stats[b].score, player_stats[a].score)

\* One insertion step: x moves left past every element it is Less than.
RECURSIVE InsertTail(_, _, _)
InsertTail(player_stats, s, x) ==
    IF s = <<>> \/ ~IsLess(player_stats, x, s[Len(s)])
    THEN Append(s, x)
    ELSE Append(InsertTail(player_stats, SubSeq(s, 1, Len(s) - 1), x), s[Len(s)])

\* sorted.sort_unstable_by(...): slices this short are insertion-sorted.
RECURSIVE SortUnstableBy(_, _)
SortUnstableBy(player_stats, v) ==
    IF v = <<>> THEN <<>>
    ELSE InsertTail(player_stats,
                    SortUnstableBy(player_stats, SubSeq(v, 1, Len(v) - 1)),
                    v[Len(v)])

\* max
Max(a, b) == IF a >= b THEN a ELSE b

\* Filtered with `<` for `<=`.
FilteredStrict(stats, games_played) ==
    /\ stats.times_seen # games_played
    /\ stats.times_seen < Max(3, games_played \div 2)

\* The `continue` of the report loop: the player is left out.
Filtered(stats, games_played) ==
    /\ stats.times_seen # games_played
    /\ stats.times_seen <= Max(3, games_played \div 2)

\* The orders in which HashMap::iter may yield the keys.
IterOrders(player_stats) ==
    LET K == DOMAIN player_stats
    IN  {s \in [1 .. Cardinality(K) -> K] : \A i, j \in DOMAIN s : i # j => s[i] # s[j]}

\* The player block formatdoc! renders.
PlayerMsg(name, stats) == [name |-> name, stats |-> stats]

\* stat_message: the header's game number and the blocks pushed after it,
\* for the iteration order iter of the map.
Render(t, iter) ==
    LET sorted == SortUnstableBy(t.player_stats, iter)
        kept   == SelectSeq(sorted, LAMBDA n : ~Filtered(t.player_stats[n], t.games_played))
    IN  [games   |-> t.games_played,
         players |-> [i \in DOMAIN kept |-> PlayerMsg(kept[i], t.player_stats[kept[i]])]]

\* ---------------------------------------------------------------- history

\* The names that have a stat line in a replay.
NamesIn(replay) ==
    {NameField(replay.PlayerStats.a[i].Name).val :
        i \in {j \in DOMAIN replay.PlayerStats.a : NameField(replay.PlayerStats.a[j].Name).some}}

\* appearances after a replay is merged: one more match for each name in it.
Appeared(app, replay) ==
    [n \in DOMAIN app \cup NamesIn(replay) |->
        (IF n \in DOMAIN app THEN app[n] ELSE 0) + (IF n \in NamesIn(replay) THEN 1 ELSE 0)]

\* handled keeps the last `window` events taken.
Remember(h, e, window) ==
    IF window = 0 THEN h
    ELSE IF Len(h) >= window THEN Append(Tail(h), e)
    ELSE Append(h, e)

\* ---------------------------------------------------------------- actions

\* let mut tally = Tally { player_stats: HashMap::new(), games_played: 0 };
\* let mut current_file = None; the channel is empty.
Init ==
    /\ rx = <<>>
    /\ current_file = None
    /\ tally = [player_stats |-> [n \in {} |-> 0], games_played |-> 0]
    /\ no_discord \in BOOLEAN
    /\ pc = "recv"
    /\ ready = <<>>
    /\ report = None
    /\ rerun = None
    /\ file = None
    /\ res = None
    /\ reports = 0
    /\ sends = 0
    /\ appearances = [n \in {} |-> 0]
    /\ handled = <<>>

\* The watcher thread sends an event (or an error) into the channel.
Notify(E, maxGames, maxQueue) ==
    /\ Len(rx) < maxQueue
    /\ tally.games_played < maxGames
    /\ \E e \in E : rx' = Append(rx, e)
    /\ UNCHANGED <<current_file, tally, no_discord, pc, ready, report, rerun, file,
                   res, reports, sends, appearances, handled>>

\* A receiver that hands over the newest event of the channel.
TakeNewest(window) ==
    /\ pc = "recv"
    /\ rx # <<>>
    /\ rx' = SubSeq(rx, 1, Len(rx) - 1)
    /\ handled' = Remember(handled, Head(rx), window)
    /\ UNCHANGED no_discord

\* for e in rx: the loop, waiting at the top, receives the oldest event.
Take(window) ==
    /\ pc = "recv"
    /\ rx # <<>>
    /\ rx' = Tail(rx)
    /\ handled' = Remember(handled, Head(rx), window)
    /\ UNCHANGED no_discord

\* An iteration that ends in `continue` (or falls out of the match) before
\* anything is parsed.
NoOutput ==
    /\ ready' = <<>>
    /\ report' = None
    /\ rerun' = None
    /\ file' = None
    /\ res' = None
    /\ UNCHANGED <<tally, pc, reports, sends, appearances>>

\* An engine that stops at the first error the watcher delivers.
RecvErrEndsLoop(window) ==
    /\ Take(window)
    /\ ~Head(rx).ok
    /\ ready' = <<>>
    /\ report' = None
    /\ rerun' = None
    /\ file' = None
    /\ res' = None
    /\ pc' = "done"
    /\ UNCHANGED <<current_file, tally, reports, sends, appearances>>

\* Err(e) => eprintln!: the arm only prints, and the for loop goes on.
RecvErr(window) ==
    /\ Take(window)
    /\ ~Head(rx).ok
    /\ NoOutput
    /\ UNCHANGED current_file

\* paths.get(0) is None
RecvNoPath(window) ==
    /\ Take(window)
    /\ Head(rx).ok
    /\ ~FirstPath(Head(rx)).some
    /\ NoOutput
    /\ UNCHANGED current_file

\* RecvCreate that keeps the path already pending (get_or_insert).
RecvCreateKeepsPending(window) ==
    /\ Take(window)
    /\ Head(rx).ok
    /\ FirstPath(Head(rx)).some
    /\ Head(rx).kind = "Create"
    /\ current_file' = IF current_file.some THEN current_file ELSE FirstPath(Head(rx))
    /\ NoOutput

\* EventKind::Create(_e) => current_file = Some(p.clone()); continue
RecvCreate(window) ==
    /\ Take(window)
    /\ Head(rx).ok
    /\ FirstPath(Head(rx)).some
    /\ Head(rx).kind = "Create"
    /\ current_file' = FirstPath(Head(rx))
    /\ NoOutput

\* EventKind::Modify(_e) with current_file None or another path => continue
RecvModifyOther(window) ==
    /\ Take(window)
    /\ Head(rx).ok
    /\ FirstPath(Head(rx)).some
    /\ Head(rx).kind = "Modify"
    /\ current_file # FirstPath(Head(rx))
    /\ NoOutput
    /\ UNCHANGED current_file

\* A wildcard arm that forgets the pending path.
RecvOtherKindForgets(window) ==
    /\ Take(window)
    /\ Head(rx).ok
    /\ FirstPath(Head(rx)).some
    /\ Head(rx).kind \notin {"Create", "Modify"}
    /\ NoOutput
    /\ current_file' = None

\* _ => continue
RecvOtherKind(window) ==
    /\ Take(window)
    /\ Head(rx).ok
    /\ FirstPath(Head(rx)).some
    /\ Head(rx).kind \notin {"Create", "Modify"}
    /\ NoOutput
    /\ UNCHANGED current_file

\* Written without the `c == p` test: any Modify is taken for the pending file.
WrittenAnyPending(window) ==
    /\ Take(window)
    /\ Head(rx).ok
    /\ FirstPath(Head(rx)).some
    /\ Head(rx).kind = "Modify"
    /\ current_file.some
    /\ current_file' = None
    /\ ready' = <<FirstPath(Head(rx)).val>>

\* EventKind::Modify(_e) for the path in current_file: "Replay written".
Written(window) ==
    /\ Take(window)
    /\ Head(rx).ok
    /\ FirstPath(Head(rx)).some
    /\ Head(rx).kind = "Modify"
    /\ current_file = FirstPath(Head(rx))
    /\ current_file' = None
    /\ ready' = <<FirstPath(Head(rx)).val>>

\* extension.is_none() || !extension.is_some_and(|os| os == "replay")
BadExtension(p) == ~Extension(p).some \/ ~(Extension(p).some /\ Extension(p).val = "replay")

\* The written path is no replay file => continue
RecvWrongExtension(window) ==
    /\ Written(window)
    /\ BadExtension(FirstPath(Head(rx)).val)
    /\ file' = None
    /\ report' = None
    /\ rerun' = None
    /\ res' = None
    /\ UNCHANGED <<tally, pc, reports, sends, appearances>>

\* Unusable without the PlayerStats tests.
UnusableParseOnly(f) == ~f.ok

\* parse_rl fails, or no PlayerStats, or PlayerStats is no array => continue
Unusable(f) == IF f.ok THEN f.PlayerStats.t # "Array" ELSE TRUE

RecvUnusable(F, window) ==
    /\ Written(window)
    /\ ~BadExtension(FirstPath(Head(rx)).val)
    /\ \E f \in F :
         /\ Unusable(f)
         /\ file' = Some(f)
    /\ report' = None
    /\ rerun' = None
    /\ res' = None
    /\ UNCHANGED <<tally, pc, reports, sends, appearances>>

\* The replay is merged and the report built; with discord the loop then
\* awaits client.send, without it the report is printed.
RecvMerge(F, window) ==
    /\ Written(window)
    /\ ~BadExtension(FirstPath(Head(rx)).val)
    /\ \E f \in F :
         /\ ~Unusable(f)
         /\ file' = Some(f)
         /\ tally' = Merge(tally, f)
         /\ appearances' = Appeared(appearances, f)
    /\ report' \in {Some(Render(tally', iter)) : iter \in IterOrders(tally'.player_stats)}
    /\ rerun' \in {Some(Render(tally', iter)) : iter \in IterOrders(tally'.player_stats)}
    /\ reports' = reports + 1
    /\ sends' = IF no_discord THEN sends ELSE sends + 1
    /\ res' = None
    /\ pc' = IF no_discord THEN "recv" ELSE "send"

\* A publisher that keeps the failed message and sends it again.
SendDoneRetries ==
    /\ pc = "send"
    /\ \E res_is_err \in BOOLEAN :
          /\ res' = Some(IF res_is_err THEN "Err" ELSE "Ok")
          /\ pc' = IF res_is_err /\ sends <= tally.games_played THEN "send" ELSE "recv"
          /\ sends' = IF res_is_err /\ sends <= tally.games_played THEN sends + 1 ELSE sends
    /\ UNCHANGED <<rx, current_file, tally, no_discord, ready, report, rerun, file,
                   reports, appearances, handled>>

\* client.send(...).await returns Ok or Err: "Failed to send message" and
\* continue, or "Sent stats"; either way the loop goes on to the next event.
SendDone ==
    /\ pc = "send"
    /\ \E res_is_err \in BOOLEAN : res' = Some(IF res_is_err THEN "Err" ELSE "Ok")
    /\ pc' = "recv"
    /\ UNCHANGED <<rx, current_file, tally, no_discord, ready, report, rerun, file,
                   reports, sends, appearances, handled>>

Next(E, F, maxGames, maxQueue, window) ==
    \/ Notify(E, maxGames, maxQueue)
    \/ RecvErr(window)
    \/ RecvNoPath(window)
    \/ RecvCreate(window)
    \/ RecvModifyOther(window)
    \/ RecvOtherKind(window)
    \/ RecvWrongExtension(window)
    \/ RecvUnusable(F, window)
    \/ RecvMerge(F, window)
    \/ SendDone

\* ---------------------------------------------------------- specifications

PathA == <<"a", "replay">>
PathB == <<"b", "replay">>
PathC == <<"c", "REPLAY">>
PathD == <<"d">>

Zero == <<Int32(0), Int32(0), Int32(0), Int32(0), Int32(0)>>
Low == <<Int32(1), Int32(0), Int32(1), Int32(0), Int32(1)>>
High == <<Int32(2), Int32(1), Int32(0), Int32(1), Int32(2)>>

\* Spec: every kind of event on paths with and without the extension; few files.
Events ==
    {Created(p) : p \in {PathA, PathB, PathC}}
        \cup {Modified(p) : p \in {PathA, PathB, PathC}}
        \cup {Other(PathA), NoPath("Create"), WatchError}

Files ==
    {ParseErr,
     Replay(Absent, Int32(1), Int32(0)),
     Replay(Str("x"), Int32(1), Int32(0)),
     Replay(Array(<<Line(Str("A"), Int32(0), Low)>>), Int32(1), Int32(0))}

Spec == Init /\ [][Next(Events, Files, MaxGames, MaxQueue, 3)]_vars

\* SpecTally: one replay path and one path without extension; many files.
EventsTally ==
    {Created(PathA), Modified(PathA), Created(PathD), Modified(PathD),
     Other(PathA), NoPath("Modify"), WatchError}

StatsTally ==
    {<<>>,
     <<Line(Str("A"), Int32(0), Low), Line(Str("B"), Int32(1), High)>>,
     <<Line(Str("B"), Int32(1), Low), Line(Str("A"), Int32(0), Low)>>,
     <<Line(Str("A"), Int32(2), High), Line(Str("B"), Int32(-1), Zero)>>,
     <<Line(Str("B"), Int32(3), Low)>>,
     <<Line(Str("A"), Int32(0), Low), Line(Str("A"), Int32(1), Low)>>,
     <<Line(Str("C"), Int32(0), Zero), Line(Str("A"), Int32(0), Low),
       Line(Str("B"), Int32(1), High)>>,
     <<Line(Str("B"), Int32(1), Low), Line(Str("C"), Int32(1), High),
       Line(Str("A"), Int32(0), High)>>}

ScoresTally ==
    {<<Int32(3), Int32(1)>>, <<Absent, Int32(2)>>, <<Int32(1), Int32(1)>>}

FilesTally ==
    {Replay(Array(s), t[1], t[2]) : s \in StatsTally, t \in ScoresTally} \cup {ParseErr}

SpecTally == Init /\ [][Next(EventsTally, FilesTally, MaxGamesTally, MaxQueue, 0)]_vars

\* SpecLong: a long session of matches with one player each (once or twice), or nobody.
FilesLong ==
    {ParseErr,
     Replay(Array(<<>>), Absent, Absent),
     Replay(Array(<<Line(Str("A"), Int32(0), Low)>>), Int32(1), Int32(0)),
     Replay(Array(<<Line(Str("B"), Int32(1), High)>>), Int32(1), Int32(0)),
     Replay(Array(<<Line(Str("B"), Int32(1), Low), Line(Str("B"), Int32(0), Low)>>),
            Int32(0), Int32(0))}

SpecLong == Init /\ [][Next(EventsTally, FilesLong, MaxGamesLong, MaxQueue, 0)]_vars

\* SpecLines: stat lines a decoder may hand over: a name on two lines with
\* different values, an empty name, a missing name, a name that is no string,
\* negative metrics.
MaxGamesLines == 2

Minus == <<Int32(-1), Int32(0), Int32(1), Int32(-2), Int32(2)>>

StatsLines ==
    {<<Line(Str("A"), Int32(0), Low), Line(Str("A"), Int32(0), High)>>,
     <<Line(Str(""), Int32(0), Low), Line(Str("B"), Int32(1), High)>>,
     <<Line(Absent, Int32(0), Low), Line(Str("B"), Int32(1), Low)>>,
     <<Line(Int32(7), Int32(0), High)>>,
     <<Line(Str("A"), Int32(0), Minus), Line(Str("B"), Int32(1), High)>>,
     <<Line(Str("B"), Int32(0), Low)>>}

FilesLines ==
    {Replay(Array(s), Int32(1), Int32(0)) : s \in StatsLines} \cup {ParseErr}

SpecLines == Init /\ [][Next(EventsTally, FilesLines, MaxGamesLines, MaxQueue, 0)]_vars

\* SpecQueue: the watcher runs ahead of the loop by up to MaxQueueLong events.
MaxQueueLong == 2
MaxGamesQueue == 2

FilesQueue ==
    {ParseErr, Replay(Array(<<Line(Str("A"), Int32(0), Low)>>), Int32(1), Int32(0))}

SpecQueue == Init /\ [][Next(EventsTally, FilesQueue, MaxGamesQueue, MaxQueueLong, 1)]_vars

\* ------------------------------------------------------------- properties

\* A loop iteration: the step takes the head of the channel.
TakeStep == pc = "recv" /\ rx # <<>> /\ rx' = Tail(rx)

\* e is Created(p) / Modified(p) for some path p.
IsCreated(e) == e.ok /\ e.kind = "Create" /\ e.paths # <<>>
IsModified(e) == e.ok /\ e.kind = "Modify" /\ e.paths # <<>>

\* C1: when the event handled last was Created(p) and the loop now takes
\* Modified(q): for q = p the iteration emits exactly one ready(p) and leaves no
\* pending path; for q # p it emits nothing and p stays pending.
C1_CreatedThenModified ==
    [][(/\ TakeStep
        /\ handled # <<>>
        /\ IsCreated(handled[Len(handled)])
        /\ IsModified(Head(rx)))
       => LET p == handled[Len(handled)].paths[1]
              q == Head(rx).paths[1]
          IN  IF q = p
              THEN ready' = <<p>> /\ current_file' = None
              ELSE ready' = <<>> /\ current_file' = Some(p)]_vars

C1_Witness ==
    /\ Len(handled) >= 2
    /\ handled[Len(handled) - 1] = Created(PathA)
    /\ handled[Len(handled)] = Modified(PathA)
    /\ ready = <<PathA>>
    /\ current_file = None

\* C2: a Created(p2) taken while p1 is pending makes p2 the one pending path and
\* emits nothing; after Created(p1), Created(p2) with p1 # p2, a Modified(p1)
\* emits nothing and leaves p2 pending; a Modified(p2) right after that emits
\* ready(p2).
C2_CreatedReplacesPending ==
    [][TakeStep =>
        /\ (current_file.some /\ IsCreated(Head(rx)))
              => (current_file' = Some(Head(rx).paths[1]) /\ ready' = <<>>)
        /\ (/\ Len(handled) >= 2
            /\ IsCreated(handled[Len(handled) - 1])
            /\ IsCreated(handled[Len(handled)])
            /\ handled[Len(handled) - 1].paths[1] # handled[Len(handled)].paths[1]
            /\ Head(rx) = Modified(handled[Len(handled) - 1].paths[1]))
              => (ready' = <<>> /\ current_file' = Some(handled[Len(handled)].paths[1]))
        /\ (/\ Len(handled) = 3
            /\ IsCreated(handled[1])
            /\ IsCreated(handled[2])
            /\ handled[1].paths[1] # handled[2].paths[1]
            /\ handled[3] = Modified(handled[1].paths[1])
            /\ Head(rx) = Modified(handled[2].paths[1]))
              => (ready' = <<handled[2].paths[1]>> /\ current_file' = None)]_vars

C2_Witness ==
    /\ handled = <<Created(PathA), Created(PathB), Modified(PathA)>>
    /\ ready = <<>>
    /\ current_file = Some(PathB)

\* A merge step: the loop iteration folded a replay into the tally.
MergeStep == TakeStep /\ tally'.games_played = tally.games_played + 1

\* The team value and the team scores as the replay states them (0 when absent).
TeamOf(line) == IF line.Team.t = "Int" THEN line.Team.i ELSE 0
HigherTeam(replay) ==
    IF ScoreOf(replay.Team0Score) > ScoreOf(replay.Team1Score) THEN 0 ELSE 1
ScoresDiffer(replay) == ScoreOf(replay.Team0Score) # ScoreOf(replay.Team1Score)

\* The lines of a replay that carry the name n and are wins (losses) by the rule
\* of the specification.
WinLines(replay, n) ==
    {i \in DOMAIN replay.PlayerStats.a :
        /\ NameField(replay.PlayerStats.a[i].Name) = Some(n)
        /\ ScoresDiffer(replay)
        /\ TeamOf(replay.PlayerStats.a[i]) = HigherTeam(replay)}
LossLines(replay, n) ==
    {i \in DOMAIN replay.PlayerStats.a :
        /\ NameField(replay.PlayerStats.a[i].Name) = Some(n)
        /\ ScoresDiffer(replay)
        /\ TeamOf(replay.PlayerStats.a[i]) = 1 - HigherTeam(replay)}

WinsOf(t, n) == IF n \in DOMAIN t.player_stats THEN t.player_stats[n].wins ELSE 0
LossesOf(t, n) == IF n \in DOMAIN t.player_stats THEN t.player_stats[n].losses ELSE 0

\* C3: a merge adds to a player's wins one per stat line of theirs whose team is
\* the higher-scoring team, to their losses one per line whose team is the
\* lower-scoring team, and nothing for any other team value or when the team
\* scores are equal.
C3_WinLossClassification ==
    [][MergeStep =>
        \A n \in DOMAIN tally'.player_stats :
            /\ WinsOf(tally', n) = WinsOf(tally, n) + Cardinality(WinLines(file'.val, n))
            /\ LossesOf(tally', n) = LossesOf(tally, n) + Cardinality(LossLines(file'.val, n))]_vars

\* C4: every PlayerTally has wins + losses <= times_seen.
C4_WinsLossesWithinTimesSeen ==
    \A n \in DOMAIN tally.player_stats :
        tally.player_stats[n].wins + tally.player_stats[n].losses
            <= tally.player_stats[n].times_seen

\* C5: each player's times_seen is the number of merged matches in which the
\* player appeared, and so never exceeds games_played.
C5_TimesSeenCountsMatches ==
    \A n \in DOMAIN tally.player_stats :
        /\ tally.player_stats[n].times_seen = appearances[n]
        /\ tally.player_stats[n].times_seen <= tally.games_played

\* The names of the player blocks of a report.
ReportNames(r) == {r.players[i].name : i \in DOMAIN r.players}

\* C6: a player is in the report exactly when times_seen = games_played or
\* times_seen > max(3, games_played / 2).
C6_ReportFilter ==
    report.some =>
        \A n \in DOMAIN tally.player_stats :
            n \in ReportNames(report.val)
                <=> LET ts == tally.player_stats[n].times_seen
                        half == tally.games_played \div 2
                    IN  \/ ts = tally.games_played
                        \/ ts > (IF half > 3 THEN half ELSE 3)

C6_Witness ==
    /\ report.some
    /\ tally.games_played = 10
    /\ DOMAIN tally.player_stats = {"A", "B"}
    /\ tally.player_stats["A"].times_seen = 4
    /\ tally.player_stats["B"].times_seen = 6
    /\ ReportNames(report.val) = {"B"}

\* C7: a player with a stat line in every match merged so far is in every report.
C7_AlwaysPresentIsReported ==
    report.some =>
        \A n \in DOMAIN appearances :
            appearances[n] = tally.games_played => n \in ReportNames(report.val)

\* C8: the players of a report are in non-increasing order of cumulative score.
C8_ReportOrder ==
    report.some =>
        \A i, j \in DOMAIN report.val.players :
            i < j => ~ULess(report.val.players[i].stats.score[1],
                            report.val.players[j].stats.score[1])

C8_Witness ==
    /\ report.some
    /\ Len(report.val.players) = 3
    /\ \E i, j \in DOMAIN report.val.players :
         /\ i < j
         /\ ULess(report.val.players[j].stats.score[1], report.val.players[i].stats.score[1])
         /\ ULess(report.val.players[i].stats.score[2], report.val.players[j].stats.score[2])

\* C9: the report is a function of the session state: two renderings of the same
\* state are the same text, whatever order the map iterates in.
C9_RenderDeterministic == report = rerun

\* The reasons for skipping a ready file, as the specification names them.
ExtensionMismatch(p) == Len(p) < 2 \/ p[Len(p)] # "replay"
DecodeFails(f) == ~f.ok
NoStatsArray(f) == f.ok /\ f.PlayerStats.t # "Array"

\* C10: an iteration that confirms a path ready and then skips it (extension
\* other than "replay", decode failure, PlayerStats missing or no array) leaves
\* games_played and every tally as they were, builds no report, leaves nothing
\* pending that would retry the file, and the loop takes the next event.
C10_FileSkipLeavesSession ==
    [][(/\ TakeStep
        /\ ready' # <<>>
        /\ \/ ExtensionMismatch(ready'[1])
           \/ (file'.some /\ (DecodeFails(file'.val) \/ NoStatsArray(file'.val))))
       => /\ tally' = tally
          /\ report' = None
          /\ current_file' = None
          /\ pc' = "recv"]_vars

C10_Witness ==
    /\ ready = <<PathA>>
    /\ file = Some(Replay(Absent, Int32(1), Int32(0)))
    /\ tally.games_played = 1
    /\ report = None
    /\ pc = "recv"

\* C11: when client.send returns Err, the step leaves the tally with the merge
\* in it, the report, the pending path and the channel as they were and puts
\* the loop back at recv; a send is made only by the iteration that merges a
\* file, once, so a failed message is never sent again; and the event taken
\* right after a failed send is handled as usual (Created(p) makes p pending,
\* Modified(p) of the pending p emits ready(p)).
C11_PublishFailureSkipsReport ==
    [][/\ (pc = "send" /\ res' = Some("Err"))
            => /\ tally' = tally
               /\ report' = report
               /\ current_file' = current_file
               /\ rx' = rx
               /\ sends' = sends
               /\ pc' = "recv"
       /\ (sends' # sends)
            => (MergeStep /\ sends' = sends + 1 /\ sends' = tally'.games_played)
       /\ (res = Some("Err") /\ TakeStep /\ IsCreated(Head(rx)))
            => (current_file' = Some(Head(rx).paths[1]) /\ ready' = <<>>)
       /\ (res = Some("Err") /\ TakeStep /\ IsModified(Head(rx))
             /\ current_file = Some(Head(rx).paths[1]))
            => ready' = <<Head(rx).paths[1]>>]_vars

C11_Witness ==
    /\ res = Some("Err")
    /\ pc = "recv"
    /\ tally.games_played = 1
    /\ "A" \in DOMAIN tally.player_stats
    /\ report.some
    /\ sends = 1
    /\ rx = <<Created(PathB)>>

\* An error of the watcher is among the events handled last.
ErrorHandled == \E i \in DOMAIN handled : ~handled[i].ok

Metrics == {"score", "goals", "assists", "saves", "shots"}

\* C13: a merge leaves the PlayerStats of every player without a stat line in
\* the merged match as it was, while games_played goes up by one; so after two
\* merges a player with stat lines in the first match only has times_seen = 1
\* and, for each metric, a cumulative total equal to the most recent value.
C13_AbsentPlayersUntouched ==
    [][MergeStep =>
        /\ tally'.games_played = tally.games_played + 1
        /\ \A n \in DOMAIN tally.player_stats \ NamesIn(file'.val) :
              /\ n \in DOMAIN tally'.player_stats
              /\ tally'.player_stats[n] = tally.player_stats[n]
              /\ tally'.games_played = 2
                   => /\ tally'.player_stats[n].times_seen = 1
                      /\ \A m \in Metrics :
                            tally'.player_stats[n][m][1] = tally'.player_stats[n][m][2]]_vars

\* The first half of C13 alone: players without a stat line are untouched.
MergeFrame ==
    [][MergeStep =>
        /\ tally'.games_played = tally.games_played + 1
        /\ \A n \in DOMAIN tally.player_stats \ NamesIn(file'.val) :
              /\ n \in DOMAIN tally'.player_stats
              /\ tally'.player_stats[n] = tally.player_stats[n]]_vars

\* The integer a usize holds when it is below 2^31 - 1; 2^31 - 1 stands for
\* every larger one.
UsizeValue(u) ==
    IF u[1] = 0 /\ u[2] = 0 /\ u[3] < 32767 THEN u[3] * Limb + u[4] ELSE 2147483647

\* The stat lines of a replay that carry the name n, in the order of the array.
LinesOf(replay, n) ==
    SelectSeq(replay.PlayerStats.a, LAMBDA l : NameField(l.Name) = Some(n))

\* The value of a metric as the stat line states it (0 when absent).
PropOf(line, m) ==
    CASE m = "score" -> ScoreOf(line.Score)
      [] m = "goals" -> ScoreOf(line.Goals)
      [] m = "assists" -> ScoreOf(line.Assists)
      [] m = "saves" -> ScoreOf(line.Saves)
      [] m = "shots" -> ScoreOf(line.Shots)

RECURSIVE SumOf(_, _)
SumOf(lines, m) ==
    IF lines = <<>> THEN 0 ELSE PropOf(Head(lines), m) + SumOf(Tail(lines), m)

\* C14: for every player and metric the cumulative total is the sum of the
\* values the merged matches state for the player, and the most recent value
\* is the one stated by the last match with the player: each merge adds the
\* values of the player's lines to the total (starting from 0 for a new
\* player) and makes the value of the player's last line the most recent one.
C14_TotalsAreSums ==
    [][MergeStep =>
        \A n \in NamesIn(file'.val) : \A m \in Metrics :
            LET lines == LinesOf(file'.val, n)
                before == IF n \in DOMAIN tally.player_stats
                          THEN UsizeValue(tally.player_stats[n][m][1])
                          ELSE 0
            IN  /\ n \in DOMAIN tally'.player_stats
                /\ UsizeValue(tally'.player_stats[n][m][1]) = before + SumOf(lines, m)
                /\ UsizeValue(tally'.player_stats[n][m][2])
                      = PropOf(lines[Len(lines)], m)]_vars

\* The rearrangements of a sequence.
Rearrangements(seq) ==
    {[i \in DOMAIN seq |-> seq[f[i]]] :
        f \in {g \in [DOMAIN seq -> DOMAIN seq] : \A i, j \in DOMAIN seq : i # j => g[i] # g[j]}}

\* C15: merging the stat lines of a match in any other order gives the same
\* tally (every count, cumulative total and most recent value) as the merge
\* in the order of the array.
C15_LineOrderIrrelevant ==
    [][MergeStep =>
        \A stats \in Rearrangements(file'.val.PlayerStats.a) :
            Merge(tally, Replay(Array(stats), file'.val.Team0Score, file'.val.Team1Score))
                = tally']_vars

\* C16: an iteration whose ready file decodes to a replay with a PlayerStats
\* array (an empty array included) raises games_played by exactly one and
\* builds exactly one report, rendered from the tally after the merge, whose
\* header carries the new games_played; games_played never goes down, the
\* k-th report built carries the number k, and no report is built by a step
\* that merges nothing.
C16_OneReportPerMerge ==
    [][/\ (TakeStep /\ file'.some /\ ~Unusable(file'.val))
            => /\ tally'.games_played = tally.games_played + 1
               /\ reports' = reports + 1
               /\ report'.some
               /\ report'.val.games = tally'.games_played
               /\ \E iter \in IterOrders(tally'.player_stats) :
                     report'.val = Render(tally', iter)
       /\ tally'.games_played >= tally.games_played
       /\ (reports' # reports)
            => (report'.some /\ report'.val.games = reports' /\ reports' = reports + 1)
       /\ (reports' # reports \/ (report'.some /\ report' # report))
            => (MergeStep /\ file'.some /\ ~Unusable(file'.val))]_vars

C16_Witness ==
    /\ file = Some(Replay(Array(<<>>), Absent, Absent))
    /\ tally.games_played = 3
    /\ reports = 3
    /\ report.some
    /\ report.val.games = 3
    /\ "B" \in DOMAIN tally.player_stats

\* The watcher delivers an event: the step appends it to the channel.
Delivery == \E e \in EventsTally : rx' = Append(rx, e)

\* C17: every step either appends one delivered event at the end of the
\* channel, leaving the loop, the pending path, the tally and the last report
\* untouched, or takes the oldest event of the channel while the loop waits
\* at recv, or leaves the channel as it is; while client.send is awaited no
\* event is taken, and its return, Ok or Err, keeps every queued event. So
\* events are handled one at a time in arrival order, and each report is built
\* by the iteration that took the Modified event confirming its file.
C17_EventsInArrivalOrder ==
    [][/\ \/ rx' = rx
          \/ /\ Delivery
             /\ UNCHANGED <<pc, current_file, tally, report, reports, sends, handled>>
          \/ /\ pc = "recv"
             /\ rx # <<>>
             /\ rx' = Tail(rx)
             /\ handled' = <<Head(rx)>>
             /\ pc' \in {"recv", "send"}
       /\ (pc = "send") => (rx' = rx \/ Delivery)
       /\ (pc = "send" /\ pc' = "recv") => (rx' = rx /\ handled' = handled)
       /\ (reports' # reports)
            => (ready' # <<>> /\ handled' = <<Modified(ready'[1])>>)]_vars

\* Two events arrived while a send is awaited; the older one is taken next.
C17_Witness ==
    /\ pc = "send"
    /\ rx = <<Created(PathA), Modified(PathA)>>
    /\ tally.games_played = 1

\* The iteration emits nothing and leaves the pending path and the tally alone.
Ignored ==
    /\ ready' = <<>>
    /\ report' = None
    /\ current_file' = current_file
    /\ tally' = tally
    /\ pc' = "recv"

\* C18: an iteration that takes an event of a kind other than Create and
\* Modify (whatever is pending), a Modified while nothing is pending, or a
\* Modified(q) while another path p is pending emits no ready and leaves the
\* pending path, games_played and every tally as they were; so after
\* Created(p), Other(p) a Modified(p) still emits ready(p).
C18_IgnoredEventsChangeNothing ==
    [][TakeStep =>
        /\ (Head(rx).ok /\ Head(rx).kind \notin {"Create", "Modify"}) => Ignored
        /\ (IsModified(Head(rx)) /\ current_file = None) => Ignored
        /\ (IsModified(Head(rx)) /\ current_file.some
              /\ current_file.val # Head(rx).paths[1]) => Ignored
        /\ (/\ Len(handled) >= 2
            /\ IsCreated(handled[Len(handled) - 1])
            /\ handled[Len(handled)] = Other(handled[Len(handled) - 1].paths[1])
            /\ Head(rx) = Modified(handled[Len(handled)].paths[1]))
           => (ready' = <<Head(rx).paths[1]>> /\ current_file' = None)]_vars

C18_Witness ==
    /\ handled = <<Created(PathA), Other(PathA), Modified(PathA)>>
    /\ ready = <<PathA>>
    /\ current_file = None

\* The non-empty names that have a stat line in a replay.
NonEmptyNamesIn(replay) == NamesIn(replay) \ {""}

\* C19: a merge creates or updates a PlayerStats only for the stat lines with
\* a non-empty name: a line whose Name is absent or is the empty text creates
\* no map entry and changes no entry, while the lines with a name are merged
\* and games_played goes up by one.
C19_OnlyNamedLinesMerged ==
    [][MergeStep =>
        /\ tally'.games_played = tally.games_played + 1
        /\ DOMAIN tally'.player_stats
              = DOMAIN tally.player_stats \cup NonEmptyNamesIn(file'.val)
        /\ \A n \in DOMAIN tally.player_stats \ NonEmptyNamesIn(file'.val) :
              tally'.player_stats[n] = tally.player_stats[n]
        /\ \A n \in NonEmptyNamesIn(file'.val) :
              tally'.player_stats[n].times_seen
                = (IF n \in DOMAIN tally.player_stats
                   THEN tally.player_stats[n].times_seen ELSE 0)
                  + Len(LinesOf(file'.val, n))]_vars

\* a <= b on usize.
ULessEq(a, b) == ~ULess(b, a)

\* C20: for every player and metric the most recent value is at most the
\* cumulative total after every step, and no step lowers a cumulative total,
\* whatever 32-bit signed values the decoder supplies (converted with
\* `as usize`, added modulo 2^64).
C20_RecentWithinTotal ==
    [][/\ \A n \in DOMAIN tally'.player_stats : \A m \in Metrics :
             ULessEq(tally'.player_stats[n][m][2], tally'.player_stats[n][m][1])
       /\ \A n \in DOMAIN tally.player_stats : \A m \in Metrics :
             /\ n \in DOMAIN tally'.player_stats
             /\ ULessEq(tally.player_stats[n][m][1], tally'.player_stats[n][m][1])]_vars

====
